---- MODULE Spec2Model ----
(***************************************************************************)
(* The Game of Hog (src/hog/hog.py): the turn resolver (roll_dice,         *)
(* boar_brawl, take_turn), the score update rules (simple_update,          *)
(* sus_update with sus_points), the game loop (play, winner), the strategy *)
(* functions and the sampling evaluators (make_averaged,                   *)
(* max_scoring_num_rolls).                                                 *)
(*                                                                         *)
(* Three state machines share the variables below:                         *)
(*   Spec      one call of play, one action per loop iteration;            *)
(*   SpecEval  one call of roll_dice, of an averaged function or of        *)
(*             max_scoring_num_rolls, one action per sample;               *)
(*   SpecFn    the pure score functions applied to drawn arguments.        *)
(* A Python assertion that fails, or a division by zero, ends the call in  *)
(* pc = "raised"; a return statement ends it in pc = "returned".           *)
(***************************************************************************)
EXTENDS Integers, Sequences, FiniteSets, TLC

VARIABLES
    pc,          \* position of the running call
    dice,        \* the dice source handed to the call (a stateful callable)
    calls,       \* history: how many times dice() has been invoked
    strategies,  \* play: strategies[0], strategies[1]
    update,      \* play: the update function
    goal,        \* play: the goal
    scores,      \* play: scores[0], scores[1]
    who,         \* play: who is about to take a turn
    turns,       \* history: number of completed turns of play
    last,        \* history: what the last turn / last sample did
    ret,         \* the value returned by the call
    ev,          \* locals of averaged(...) and max_scoring_num_rolls(...)
    fn           \* SpecFn: the function applied and its arguments

vars == <<pc, dice, calls, strategies, update, goal, scores, who, turns, last, ret, ev, fn>>

Unused == "-"

\* `last` before any turn; `ret` before any return.
NoTurn == [outcome |-> "none"]

Nothing == <<>>

----------------------------------------------------------------------------
(* Bounds of the model *)

MaxGoal == 3
MaxCycle == 2
FairSides == 2
MaxFairRolls == 2
MaxSamples == 3
MaxScore == 120

(* Program constants *)

GOAL == 100
MaxRolls == 10
DefaultThreshold == 11
DefaultNumRolls == 6
DocSamples == 40
DefaultSamples == 1000

----------------------------------------------------------------------------
(* Helpers standing for Python built-ins *)

Abs(x) == IF x < 0 THEN -x ELSE x

Max(a, b) == IF a >= b THEN a ELSE b

Min(a, b) == IF a <= b THEN a ELSE b

RECURSIVE SumFrom(_, _)
SumFrom(s, k) == IF k > Len(s) THEN 0 ELSE s[k] + SumFrom(s, k + 1)

Sum(s) == SumFrom(s, 1)

Contains(s, x) == \E k \in 1..Len(s) : s[k] = x

Return(v, n) == [kind |-> "return", value |-> v, used |-> n]

Raise(e, n) == [kind |-> "raise", error |-> e, used |-> n]

----------------------------------------------------------------------------
(* The dice source: make_test_dice(outcomes) cycles through its outcomes,  *)
(* make_fair_dice(sides) returns any of 1..sides.  `index` is the position *)
(* of the outcome the next call returns.                                   *)

make_test_dice(outcomes, index) == [kind |-> "test", outcomes |-> outcomes, index |-> index]

make_fair_dice(sides) == [kind |-> "fair", sides |-> sides]

\* The outcome of the k-th next call of a scripted dice d (k = 1, 2, ...).
Outcome(d, k) == d.outcomes[((d.index - 1 + k - 1) % Len(d.outcomes)) + 1]

\* The possible outcomes of the next n calls dice(), in order.
Feeds(d, n) ==
    IF d.kind = "test"
    THEN {[k \in 1..n |-> Outcome(d, k)]}
    ELSE [1..n -> 1..d.sides]

\* The dice source after n calls.
Advance(d, n) ==
    IF d.kind = "test"
    THEN [d EXCEPT !.index = ((d.index - 1 + n) % Len(d.outcomes)) + 1]
    ELSE d

----------------------------------------------------------------------------
(* Phase 1: simulator.  A function that calls dice() takes `feed`, the     *)
(* outcomes successive calls of dice() produce, and answers with           *)
(* Return(value, used) or Raise(error, used), used being the number of     *)
(* dice() calls it made.                                                   *)

\* Mutant: rolling stops at the first 1.
roll_dice_short(num_rolls, feed) ==
    IF ~(num_rolls > 0)
    THEN Raise("AssertionError", 0)
    ELSE LET ones == {k \in 1..num_rolls : feed[k] = 1}
             stop == IF ones = {} THEN num_rolls
                     ELSE CHOOSE k \in ones : \A j \in ones : k <= j
             results == [k \in 1..stop |-> feed[k]]
         IN  IF Contains(results, 1)
             THEN Return(1, Len(results))
             ELSE Return(Sum(results), Len(results))

\* Mutant: a Pig Out zeroes the turn.
roll_dice_zero(num_rolls, feed) ==
    IF ~(num_rolls > 0)
    THEN Raise("AssertionError", 0)
    ELSE LET results == [k \in 1..num_rolls |-> feed[k]]
         IN  IF Contains(results, 1)
             THEN Return(0, Len(results))
             ELSE Return(Sum(results), Len(results))

roll_dice(num_rolls, feed) ==
    IF ~(num_rolls > 0)
    THEN Raise("AssertionError", 0)
    ELSE LET results == [k \in 1..num_rolls |-> feed[k]]
         IN  IF Contains(results, 1)
             THEN Return(1, Len(results))
             ELSE Return(Sum(results), Len(results))

\* Mutant: the floor of 1 point is forgotten.
boar_brawl_no_floor(player_score, opponent_score) ==
    3 * Abs(((opponent_score \div 10) % 10) - (player_score % 10))

boar_brawl(player_score, opponent_score) ==
    Max(1, 3 * Abs(((opponent_score \div 10) % 10) - (player_score % 10)))

\* Mutant: an out-of-range roll count is clamped into 0..10.
take_turn_clamped(num_rolls, player_score, opponent_score, feed) ==
    LET n == Max(0, Min(num_rolls, MaxRolls))
    IN  IF n = 0
        THEN Return(boar_brawl(player_score, opponent_score), 0)
        ELSE roll_dice(n, feed)

take_turn(num_rolls, player_score, opponent_score, feed) ==
    IF ~(num_rolls >= 0) \/ ~(num_rolls <= MaxRolls)
    THEN Raise("AssertionError", 0)
    ELSE IF num_rolls = 0
         THEN Return(boar_brawl(player_score, opponent_score), 0)
         ELSE roll_dice(num_rolls, feed)

simple_update(num_rolls, player_score, opponent_score, feed) ==
    LET t == take_turn(num_rolls, player_score, opponent_score, feed)
    IN  IF t.kind = "raise" THEN t
        ELSE Return(player_score + t.value, t.used)

\* Mutant: trial division stops below the square root.
is_prime_sqrt(n) == n # 1 /\ \A k \in 2..(n - 1) : k * k < n => n % k # 0

is_prime(n) == n # 1 /\ \A k \in 2..(n - 1) : n % k # 0

\* The inner loop at hog.py:118: the first prime >= prime_factor, or n + 1.
RECURSIVE NextPrimeFactor(_, _)
NextPrimeFactor(prime_factor, n) ==
    IF prime_factor <= n /\ ~is_prime(prime_factor)
    THEN NextPrimeFactor(prime_factor + 1, n)
    ELSE prime_factor

\* The inner loop at hog.py:123: <<n, current_exp>> after dividing out.
RECURSIVE DivideOut(_, _, _)
DivideOut(n, prime_factor, current_exp) ==
    IF n % prime_factor = 0
    THEN DivideOut(n \div prime_factor, prime_factor, current_exp + 1)
    ELSE <<n, current_exp>>

\* The outer loop at hog.py:116.
RECURSIVE NumFactorsLoop(_, _, _)
NumFactorsLoop(n, prime_factor, factor_num) ==
    IF n > 1
    THEN LET p == NextPrimeFactor(prime_factor + 1, n)
         IN  IF p > n
             THEN factor_num
             ELSE LET d == DivideOut(n, p, 0)
                  IN  NumFactorsLoop(d[1], p, factor_num * (d[2] + 1))
    ELSE factor_num

num_factors(n) == NumFactorsLoop(n, 1, 1)

\* The loop at hog.py:143.
RECURSIVE UntilPrime(_)
UntilPrime(score) == IF ~is_prime(score) THEN UntilPrime(score + 1) ELSE score

\* Mutant: the score is incremented once, not until it is prime.
sus_points_once(score) ==
    IF num_factors(score) \in {3, 4} /\ ~is_prime(score) THEN score + 1 ELSE score

sus_points(score) ==
    IF num_factors(score) \in {3, 4} THEN UntilPrime(score) ELSE score

\* @lru_cache at hog.py:131: sus_points is computed once per score.
sus_points_cache == [score \in 0..(3 * GOAL) |-> sus_points(score)]

sus_update(num_rolls, player_score, opponent_score, feed) ==
    LET t == take_turn(num_rolls, player_score, opponent_score, feed)
    IN  IF t.kind = "raise" THEN t
        ELSE Return(sus_points_cache[player_score + t.value], t.used)

\* Calling the update function that play was given.
Update(u, num_rolls, player_score, opponent_score, feed) ==
    IF u = "simple_update"
    THEN simple_update(num_rolls, player_score, opponent_score, feed)
    ELSE sus_update(num_rolls, player_score, opponent_score, feed)

----------------------------------------------------------------------------
(* Phase 2: strategies.  A strategy value is a record; Strategy(s, a, b)   *)
(* is the set of values the call s(a, b) can return.  A "custom" strategy  *)
(* is a caller-supplied function, which may return any value of `rolls`.   *)

always_roll(n) == [kind |-> "always_roll", n |-> n]

always_roll_5 == [kind |-> "always_roll_5"]

catch_up(score, opponent_score) == IF score < opponent_score THEN 6 ELSE 5

boar_strategy(score, opponent_score, threshold, num_rolls) ==
    IF boar_brawl(score, opponent_score) >= threshold THEN 0 ELSE num_rolls

sus_strategy(score, opponent_score, threshold, num_rolls) ==
    IF sus_update(0, score, opponent_score, <<>>).value - score >= threshold
    THEN 0
    ELSE num_rolls

Custom(rolls) == [kind |-> "custom", rolls |-> rolls]

Strategy(s, score, opponent_score) ==
    CASE s.kind = "always_roll" -> {s.n}
      [] s.kind = "always_roll_5" -> {5}
      [] s.kind = "catch_up" -> {catch_up(score, opponent_score)}
      [] s.kind = "boar_strategy" ->
            {boar_strategy(score, opponent_score, DefaultThreshold, DefaultNumRolls)}
      [] s.kind = "sus_strategy" ->
            {sus_strategy(score, opponent_score, DefaultThreshold, DefaultNumRolls)}
      [] s.kind = "custom" -> s.rolls

\* The values the return statements of a strategy can produce.
StrategyValues(s) ==
    CASE s.kind = "always_roll" -> {s.n}
      [] s.kind = "always_roll_5" -> {5}
      [] s.kind = "catch_up" -> {6, 5}
      [] s.kind = "boar_strategy" -> {0, DefaultNumRolls}
      [] s.kind = "sus_strategy" -> {0, DefaultNumRolls}
      [] s.kind = "custom" -> s.rolls

----------------------------------------------------------------------------
(* Inputs *)

Faces == {1, 3}

\* The outcome lists given to make_test_dice.
TestScripts == UNION {[1..l -> Faces] : l \in 1..MaxCycle}

\* A scripted dice, fresh or already used.
TestDice == {make_test_dice(o, i) : <<o, i>> \in {x \in TestScripts \X (1..MaxCycle) : x[2] <= Len(x[1])}}

FreshTestDice == {d \in TestDice : d.index = 1}

\* The dice of the games played to GOAL.
LongGameDice == {make_test_dice(o, 1) : o \in {<<3>>, <<1, 6>>, <<6, 5>>, <<4, 2, 5, 1>>}}

six_sided == make_fair_dice(6)

Updates == {"simple_update", "sus_update"}

StartScores == {0, 1}

\* Caller-supplied strategies: well-behaved, and returning out-of-range counts.
GoodRolls == {0, 1, 2, MaxRolls}

BadRolls == {-1, 0, 3, MaxRolls + 1}

CustomStrategies == {Custom(GoodRolls), Custom(BadRolls)}

NamedStrategies ==
    {always_roll(0), always_roll(6), always_roll_5,
     [kind |-> "catch_up"], [kind |-> "boar_strategy"], [kind |-> "sus_strategy"]}

InRange(s) == \A n \in StrategyValues(s) : 0 <= n /\ n <= MaxRolls

----------------------------------------------------------------------------
(* play (hog.py:176-217) and winner (hog.py:322-328) *)

\* Mutant: only player 0's score is compared with the goal.
LoopConditionFirst(s, g) == s[0] < g

\* hog.py:211
LoopCondition(s, g) == s[0] < g /\ s[1] < g

\* hog.py:212: the strategy consulted and the arguments it is called with.
StrategyCall(w) == [strategy |-> w, args |-> <<scores[w], scores[1 - w]>>]

\* hog.py:213: the score that is overwritten.
Updated(w) == w

\* Mutant: the turn is not handed over.
NextWhoSame(w) == w

\* hog.py:214
NextWho(w) == 1 - w

\* hog.py:325-328
Winner(score0, score1) == IF score0 > score1 THEN 0 ELSE 1

\* No game takes this many turns (every turn adds at least 1 to a score
\* below goal); the guard on it in TakeTurn keeps the counter finite.
TurnCap == 2 * goal + 2

\* play(strategy0, strategy1, update, score0, score1, dice, goal)
InitPlay ==
    /\ pc = "play"
    /\ fn = "play"
    /\ \/ /\ goal \in 1..MaxGoal
          /\ dice \in FreshTestDice
          /\ scores \in [0..1 -> StartScores]
          /\ strategies \in {[p \in 0..1 |-> c] : c \in CustomStrategies}
       \/ /\ goal = MaxGoal
          /\ dice = make_fair_dice(FairSides)
          /\ scores = [p \in 0..1 |-> 0]
          /\ strategies \in [0..1 -> {Custom(0..MaxFairRolls)}]
       \/ /\ goal = GOAL
          /\ scores = [p \in 0..1 |-> 0]
          /\ dice \in LongGameDice
          /\ strategies \in [0..1 -> NamedStrategies]
    /\ update \in Updates

\* winner(strategy0, strategy1): play(strategy0, strategy1, sus_update)
InitWinner ==
    /\ pc = "play"
    /\ fn = "winner"
    /\ goal = GOAL
    /\ scores = [p \in 0..1 |-> 0]
    /\ dice = six_sided
    /\ strategies \in [0..1 -> {always_roll(0)}]
    /\ update = "sus_update"

Init ==
    /\ InitPlay \/ InitWinner
    /\ who = 0
    /\ calls = 0
    /\ turns = 0
    /\ last = NoTurn
    /\ ret = Nothing
    /\ ev = Unused

\* One iteration of the loop at hog.py:211-214.
TakeTurn ==
    /\ pc = "play"
    /\ LoopCondition(scores, goal)
    /\ turns < TurnCap
    /\ LET c == StrategyCall(who)
       IN  \E num_rolls \in Strategy(strategies[c.strategy], c.args[1], c.args[2]) :
           \E feed \in Feeds(dice, Max(num_rolls, 0)) :
              LET r == Update(update, num_rolls, scores[who], scores[1 - who], feed)
                  t == take_turn(num_rolls, scores[who], scores[1 - who], feed)
              IN  /\ dice' = Advance(dice, r.used)
                  /\ calls' = calls + r.used
                  /\ last' = IF r.kind = "raise"
                              THEN [who |-> who, consulted |-> c, num_rolls |-> num_rolls,
                                    feed |-> feed, before |-> scores, outcome |-> r.kind,
                                    used |-> r.used]
                              ELSE [who |-> who, consulted |-> c, num_rolls |-> num_rolls,
                                    feed |-> feed, before |-> scores, outcome |-> r.kind,
                                    used |-> r.used, points |-> t.value, value |-> r.value]
                  /\ IF r.kind = "raise"
                     THEN /\ pc' = "raised"
                          /\ UNCHANGED <<scores, who, turns>>
                     ELSE /\ pc' = "play"
                          /\ scores' = [scores EXCEPT ![Updated(who)] = r.value]
                          /\ who' = NextWho(who)
                          /\ turns' = turns + 1
    /\ UNCHANGED <<strategies, update, goal, ret, ev, fn>>

\* hog.py:215-217, and hog.py:325-328 when play was called by winner.
ReturnPlay ==
    /\ pc = "play"
    /\ ~LoopCondition(scores, goal)
    /\ pc' = "returned"
    /\ ret' = IF fn = "winner"
              THEN <<Winner(scores[0], scores[1])>>
              ELSE <<scores[0], scores[1]>>
    /\ UNCHANGED <<dice, calls, strategies, update, goal, scores, who, turns, last, ev, fn>>

Next == TakeTurn \/ ReturnPlay

Spec == Init /\ [][Next]_vars

\* The interpreter runs the call to its end: a step that can be taken is taken.
FairSpec == Spec /\ WF_vars(Next)

----------------------------------------------------------------------------
(* Properties of play *)

\* C1: play terminates: when both strategies return roll counts in 0..10
\* (dice outcomes are >= 1, scores start non-negative, goal > 0, update is
\* simple_update or sus_update), the call reaches its return statement.
PlayTerminates ==
    (InRange(strategies[0]) /\ InRange(strategies[1])) => <>(pc = "returned")

PlayTerminatesWitness ==
    /\ pc = "returned"
    /\ InRange(strategies[0]) /\ InRange(strategies[1])
    /\ turns >= 4
    /\ update = "sus_update"

BothBelow(s) == s[0] < goal /\ s[1] < goal

\* With turns = 0 the scores are still the starting scores.
StartedBelowGoal == turns > 0 \/ BothBelow(scores)

\* C2: a game started with both scores below goal never ends in a tie: at
\* return exactly one score is >= goal, it is the last mover's, the other is
\* below goal; winner's comparison names the player who reached the goal.
NoTie ==
    (pc = "returned" /\ StartedBelowGoal) =>
        /\ last.outcome = "return"
        /\ scores[last.who] >= goal
        /\ scores[1 - last.who] < goal
        /\ scores[0] # scores[1]
        /\ Winner(scores[0], scores[1]) = last.who
        /\ fn = "winner" => ret = <<last.who>>
        /\ fn = "play" => ret = <<scores[0], scores[1]>>

NoTieWitness ==
    /\ pc = "returned"
    /\ turns > 1
    /\ last.who = 1
    /\ scores[1] > goal
    /\ scores[0] = goal - 1
    /\ Winner(scores[0], scores[1]) = 1

\* The index (0, 1, 2, ...) of the turn that `last` describes.
LastTurn == IF last.outcome = "return" THEN turns - 1 ELSE turns

\* C3: turns alternate 0,1,0,1,... from player 0: turn k is taken by player
\* k mod 2, only while both scores are below goal; the mover's strategy is
\* consulted with (mover's score, other's score), the mover's score is
\* overwritten and the other player's score is left unchanged.
TurnsAlternate ==
    /\ who = turns % 2
    /\ last # NoTurn =>
        /\ last.who = LastTurn % 2
        /\ BothBelow(last.before)
        /\ last.consulted.strategy = last.who
        /\ last.consulted.args = <<last.before[last.who], last.before[1 - last.who]>>
        /\ last.outcome = "return" =>
            /\ scores[last.who] = last.value
            /\ scores[1 - last.who] = last.before[1 - last.who]

TurnsAlternateWitness ==
    /\ pc = "play"
    /\ turns = 3
    /\ last.who = 0
    /\ last.before[0] # last.before[1]
    /\ scores[0] # last.before[0]

OutOfRange(n) == n < 0 \/ n > MaxRolls

\* C5: an out-of-range roll count is never clamped: take_turn raises before
\* the dice is invoked and yields no points (as does roll_dice for a count
\* <= 0); play ends with that error, the failing turn updates no score and
\* no score pair is returned.
FailsLoudly ==
    /\ last # NoTurn =>
        /\ OutOfRange(last.num_rolls) <=> last.outcome = "raise"
        /\ last.outcome = "raise" <=> pc = "raised"
        /\ last.num_rolls <= 0 => roll_dice(last.num_rolls, last.feed) = Raise("AssertionError", 0)
    /\ pc = "raised" =>
        /\ take_turn(last.num_rolls, last.before[last.who], last.before[1 - last.who], last.feed)
              = Raise("AssertionError", 0)
        /\ last.used = 0
        /\ scores = last.before
        /\ who = last.who
        /\ ret = Nothing
        /\ ~ENABLED Next

FailsLoudlyWitness ==
    /\ pc = "raised"
    /\ turns >= 2
    /\ last.num_rolls > MaxRolls
    /\ calls > 0

\* C10: every turn raises the mover's score by at least 1 under both update
\* rules: the points are >= 1, simple_update gives score + points, and
\* sus_update gives at least that; no score ever decreases.
ScoresIncrease ==
    last.outcome = "return" =>
        LET p == last.before[last.who]
            o == last.before[1 - last.who]
            simple == simple_update(last.num_rolls, p, o, last.feed).value
            sus == sus_update(last.num_rolls, p, o, last.feed).value
        IN  /\ last.points >= 1
            /\ boar_brawl(p, o) >= 1
            /\ simple = p + last.points
            /\ simple >= p + 1
            /\ sus >= simple
            /\ sus_points(simple) >= simple
            /\ scores[last.who] = (IF update = "simple_update" THEN simple ELSE sus)
            /\ scores[last.who] >= p + 1
            /\ scores[1 - last.who] >= o

ScoresIncreaseWitness ==
    /\ last.outcome = "return"
    /\ update = "sus_update"
    /\ last.num_rolls > 0
    /\ last.points = 1
    /\ scores[last.who] > last.before[last.who] + last.points

----------------------------------------------------------------------------
(* Phase 2: the sampling evaluators.  make_averaged (hog.py:280-299) and   *)
(* max_scoring_num_rolls (hog.py:302-319), applied to roll_dice.  A float  *)
(* quotient a / b is kept as the pair <<a, b>>: Python's true division of  *)
(* integers is correctly rounded, so on the integers of this model (far    *)
(* below 2^26) two quotients compare as the exact fractions do, and a      *)
(* quotient equals the float 3.0 exactly when a = 3 * b.                   *)

\* Mutant: floor division.
FloorQuotient(a, b) == <<a \div b, 1>>

\* hog.py:297: res / samples_count
Quotient(a, b) == <<a, b>>

\* Mutant: a later candidate with an equal average replaces the best one.
GreaterOrEqual(x, y) == x[1] * y[2] >= y[1] * x[2]

\* hog.py:316: score > max_score
Greater(x, y) == x[1] * y[2] > y[1] * x[2]

\* Mutant: one sample too many.
MoreSamplesInclusive(done, samples_count) == done <= samples_count

\* hog.py:295: for _ in range(samples_count)
MoreSamples(done, samples_count) == done < samples_count

\* hog.py:314: for i in range(1, 11)
Candidates == 1..MaxRolls

DocDice == {make_test_dice(<<4, 2, 5, 1>>, i) : i \in 1..4} \cup {make_test_dice(<<1, 6>>, i) : i \in 1..2}

EvalDice == TestDice \cup DocDice

\* roll_dice(num_rolls, dice)
InitRollDice ==
    /\ fn = "roll_dice"
    /\ pc = "call"
    /\ \/ /\ dice \in EvalDice
          /\ \E n \in (-1)..(MaxRolls + 1) : ev = [num_rolls |-> n]
       \/ /\ dice = make_fair_dice(FairSides)
          /\ \E n \in (-1)..MaxFairRolls : ev = [num_rolls |-> n]

\* make_averaged(roll_dice, samples_count)(num_rolls, dice)
InitAveraged ==
    /\ fn = "averaged"
    /\ pc = "averaged"
    /\ dice \in EvalDice
    /\ \E n \in 0..MaxRolls, c \in (0..MaxSamples) \cup {DocSamples} :
          ev = [samples_count |-> c, num_rolls |-> n, done |-> 0, res |-> 0, start |-> dice]

\* max_scoring_num_rolls(dice, samples_count); hog.py:313
InitMaxScoring ==
    /\ fn = "max_scoring_num_rolls"
    /\ pc = "loop"
    /\ \E c \in (0..MaxSamples) \cup {DefaultSamples} :
          /\ dice \in IF c = DefaultSamples THEN {make_test_dice(<<1, 6>>, 1)} ELSE EvalDice
          /\ ev = [samples_count |-> c, i |-> 1, max_num |-> 0, max_score |-> <<-1, 1>>,
                   scores |-> <<>>, start |-> dice]

InitEval ==
    /\ InitRollDice \/ InitAveraged \/ InitMaxScoring
    /\ calls = 0
    /\ last = NoTurn
    /\ ret = Nothing
    /\ strategies = Unused /\ update = Unused /\ goal = Unused
    /\ scores = Unused /\ who = Unused /\ turns = Unused

\* What one call roll_dice(num_rolls, dice) leaves behind.
RollRecord(num_rolls, feed, r) ==
    IF r.kind = "raise"
    THEN [num_rolls |-> num_rolls, feed |-> feed, dice |-> dice, outcome |-> r.kind,
          used |-> r.used]
    ELSE [num_rolls |-> num_rolls, feed |-> feed, dice |-> dice, outcome |-> r.kind,
          used |-> r.used, value |-> r.value]

\* A direct call of roll_dice.
CallRollDice ==
    /\ pc = "call"
    /\ \E feed \in Feeds(dice, Max(ev.num_rolls, 0)) :
          LET r == roll_dice(ev.num_rolls, feed)
          IN  /\ dice' = Advance(dice, r.used)
              /\ calls' = calls + r.used
              /\ last' = RollRecord(ev.num_rolls, feed, r)
              /\ IF r.kind = "raise"
                 THEN pc' = "raised" /\ ret' = ret
                 ELSE pc' = "returned" /\ ret' = <<r.value>>
    /\ UNCHANGED <<ev, fn, strategies, update, goal, scores, who, turns>>

\* hog.py:295-296: one more original_function(*args) is evaluated and summed.
Sample ==
    /\ pc = "averaged"
    /\ MoreSamples(ev.done, ev.samples_count)
    /\ \E feed \in Feeds(dice, Max(ev.num_rolls, 0)) :
          LET r == roll_dice(ev.num_rolls, feed)
          IN  /\ dice' = Advance(dice, r.used)
              /\ calls' = calls + r.used
              /\ last' = RollRecord(ev.num_rolls, feed, r)
              /\ IF r.kind = "raise"
                 THEN /\ pc' = "raised"
                      /\ ev' = [ev EXCEPT !.done = @ + 1]
                 ELSE /\ pc' = "averaged"
                      /\ ev' = [ev EXCEPT !.done = @ + 1, !.res = @ + r.value]
    /\ UNCHANGED <<ret, fn, strategies, update, goal, scores, who, turns>>

\* hog.py:297, and hog.py:316-317 when max_scoring_num_rolls made the call.
Average ==
    /\ pc = "averaged"
    /\ ~MoreSamples(ev.done, ev.samples_count)
    /\ IF ev.samples_count = 0
       THEN /\ pc' = "raised"
            /\ UNCHANGED <<ev, ret>>
       ELSE LET score == Quotient(ev.res, ev.samples_count)
            IN  IF fn = "averaged"
                THEN /\ pc' = "returned"
                     /\ ret' = score
                     /\ UNCHANGED ev
                ELSE /\ pc' = "loop"
                     /\ ev' = [i |-> ev.i + 1,
                               max_num |-> IF Greater(score, ev.max_score) THEN ev.i ELSE ev.max_num,
                               max_score |-> IF Greater(score, ev.max_score) THEN score ELSE ev.max_score,
                               scores |-> Append(ev.scores, [num_rolls |-> ev.i, score |-> score]),
                               samples_count |-> ev.samples_count, start |-> ev.start]
                     /\ UNCHANGED ret
    /\ UNCHANGED <<dice, calls, last, fn, strategies, update, goal, scores, who, turns>>

\* hog.py:314-315: the next candidate is averaged.
NextCandidate ==
    /\ pc = "loop"
    /\ ev.i \in Candidates
    /\ pc' = "averaged"
    /\ ev' = [i |-> ev.i, max_num |-> ev.max_num, max_score |-> ev.max_score,
              scores |-> ev.scores, samples_count |-> ev.samples_count, start |-> ev.start,
              num_rolls |-> ev.i, done |-> 0, res |-> 0]
    /\ UNCHANGED <<dice, calls, last, ret, fn, strategies, update, goal, scores, who, turns>>

\* hog.py:318
ReturnMaxNum ==
    /\ pc = "loop"
    /\ ev.i \notin Candidates
    /\ pc' = "returned"
    /\ ret' = <<ev.max_num>>
    /\ UNCHANGED <<dice, calls, last, ev, fn, strategies, update, goal, scores, who, turns>>

NextEval == CallRollDice \/ Sample \/ Average \/ NextCandidate \/ ReturnMaxNum

SpecEval == InitEval /\ [][NextEval]_vars

----------------------------------------------------------------------------
(* Properties of roll_dice and the evaluators *)

\* The sum of v * c over the pairs <<v, c>> of the finite set P.
RECURSIVE WeightedSum(_)
WeightedSum(P) ==
    IF P = {} THEN 0
    ELSE LET x == CHOOSE y \in P : TRUE IN x[1] * x[2] + WeightedSum(P \ {x})

\* The sum of f(i) over i in I, by counting how often each value occurs.
SumOver(I, f(_)) ==
    WeightedSum({<<v, Cardinality({i \in I : f(i) = v})>> : v \in {f(i) : i \in I}})

\* What a turn of n rolls is worth when the dice d has been called `off`
\* times before: 1 on a Pig Out, else the sum of the outcomes.
RefRoll(d, n, off) ==
    LET out(k) == Outcome(d, off + k)
    IN  IF \E k \in 1..n : out(k) = 1 THEN 1 ELSE SumOver(1..n, out)

\* The sum of count successive turns of n rolls each, from the dice d on.
RefTotal(d, n, count) ==
    LET turn(j) == RefRoll(d, n, (j - 1) * n)
    IN  SumOver(1..count, turn)

\* C4: roll_dice(num_rolls, dice) with num_rolls >= 1 invokes the dice
\* exactly num_rolls times, also after an outcome of 1 (a scripted dice
\* advances num_rolls positions), and returns 1 if any outcome is 1, else
\* the sum of the outcomes.
RollDiceExact ==
    last # NoTurn =>
        /\ last.outcome = "return" <=> last.num_rolls >= 1
        /\ last.outcome = "return" =>
            /\ last.used = last.num_rolls
            /\ Len(last.feed) = last.num_rolls
            /\ last.dice.kind = "test" =>
                /\ \A k \in 1..last.num_rolls : last.feed[k] = Outcome(last.dice, k)
                /\ dice.outcomes = last.dice.outcomes
                /\ dice.index =
                     ((last.dice.index - 1 + last.num_rolls) % Len(dice.outcomes)) + 1
                /\ last.value = RefRoll(last.dice, last.num_rolls, 0)
            /\ last.value =
                 IF \E k \in 1..last.num_rolls : last.feed[k] = 1 THEN 1
                 ELSE LET out(k) == last.feed[k] IN SumOver(1..last.num_rolls, out)
            /\ fn = "roll_dice" => calls = last.num_rolls /\ ret = <<last.value>>

RollDiceExactWitness ==
    /\ fn = "roll_dice"
    /\ pc = "returned"
    /\ last.num_rolls = 3
    /\ last.feed[1] = 1 /\ last.feed[2] = 3
    /\ last.used = 3
    /\ ret = <<1>>

CycleSum(outcomes) == LET out(k) == outcomes[k] IN SumOver(1..Len(outcomes), out)

\* C8: the averaged function calls f exactly samples_count times with the
\* arguments it was given (the one dice source carries its state from sample
\* to sample) and returns the sum of the results divided by samples_count;
\* make_averaged(roll_dice, 40)(1, dice) with dice cycling 4,2,5,1 is 3.0;
\* with num_rolls = 1 and samples_count a multiple of the cycle length the
\* result is the mean of the cycle.
AveragedMean ==
    fn = "averaged" =>
        LET S == ev.samples_count
            n == ev.num_rolls
            d == ev.start
        IN  /\ last # NoTurn =>
                /\ last.num_rolls = n
                /\ last.dice = Advance(d, (ev.done - 1) * n)
            /\ pc = "returned" =>
                /\ S >= 1
                /\ ev.done = S
                /\ calls = S * n
                /\ dice = Advance(d, S * n)
                /\ ret = <<RefTotal(d, n, S), S>>
                /\ (d.outcomes = <<4, 2, 5, 1>> /\ n = 1 /\ S = DocSamples) =>
                      ret = <<120, 40>> /\ ret[1] = 3 * ret[2]
                /\ (n = 1 /\ S % Len(d.outcomes) = 0) =>
                      ret[1] * Len(d.outcomes) = CycleSum(d.outcomes) * ret[2]
            /\ pc = "raised" =>
                \/ S = 0 /\ ev.done = 0 /\ calls = 0
                \/ n = 0 /\ ev.done = 1 /\ calls = 0

AveragedMeanWitness ==
    /\ fn = "averaged"
    /\ pc = "returned"
    /\ ev.start = make_test_dice(<<4, 2, 5, 1>>, 1)
    /\ ev.num_rolls = 1
    /\ ev.samples_count = DocSamples
    /\ ret = <<120, 40>>

\* The calls of dice() made before candidate i is averaged.
CallsBefore(i, S) == S * ((i * (i - 1)) \div 2)

\* C9: max_scoring_num_rolls averages samples_count turns for each of the
\* candidates 1..10 in increasing order on the one dice source, and returns
\* the smallest candidate whose average is the maximum; with a dice cycling
\* 1,6 and the default samples_count it returns 1.
MaxScoringLowest ==
    (fn = "max_scoring_num_rolls" /\ pc = "returned") =>
        LET S == ev.samples_count
            d == ev.start
            avg(i) == ev.scores[i].score
            m == ret[1]
        IN  /\ S >= 1
            /\ Len(ev.scores) = MaxRolls
            /\ \A i \in 1..MaxRolls :
                  /\ ev.scores[i].num_rolls = i
                  /\ avg(i) = <<RefTotal(Advance(d, CallsBefore(i, S)), i, S), S>>
            /\ calls = CallsBefore(MaxRolls + 1, S)
            /\ Len(ret) = 1 /\ m \in 1..MaxRolls
            /\ \A j \in 1..MaxRolls : avg(j)[1] * avg(m)[2] <= avg(m)[1] * avg(j)[2]
            /\ \A j \in 1..(m - 1) : avg(j)[1] * avg(m)[2] < avg(m)[1] * avg(j)[2]
            /\ (d = make_test_dice(<<1, 6>>, 1) /\ S = DefaultSamples) => m = 1

MaxScoringLowestWitness ==
    /\ fn = "max_scoring_num_rolls"
    /\ pc = "returned"
    /\ ev.start = make_test_dice(<<1, 6>>, 1)
    /\ ev.samples_count = DefaultSamples
    /\ ev.scores[1].score = <<3500, 1000>>
    /\ ev.scores[2].score = <<1000, 1000>>
    /\ ret = <<1>>

----------------------------------------------------------------------------
(* The Sus Fuss functions applied to a drawn score: sus_points(score), and *)
(* then sus_points applied to what it returned.                            *)

InitFn ==
    /\ fn = "sus_points"
    /\ pc = "call"
    /\ \E score \in 0..MaxScore : ev = [score |-> score]
    /\ ret = Nothing
    /\ dice = Unused /\ calls = Unused /\ last = NoTurn
    /\ strategies = Unused /\ update = Unused /\ goal = Unused
    /\ scores = Unused /\ who = Unused /\ turns = Unused

\* sus_points(score), with the num_factors(score) it tests at hog.py:142.
CallSusPoints ==
    /\ pc = "call"
    /\ pc' = "returned"
    /\ ret' = <<sus_points(ev.score)>>
    /\ ev' = [score |-> ev.score, factors |-> num_factors(ev.score)]
    /\ UNCHANGED <<dice, calls, last, fn, strategies, update, goal, scores, who, turns>>

\* sus_points(sus_points(score))
CallSusPointsAgain ==
    /\ pc = "returned"
    /\ pc' = "returned again"
    /\ ev' = [score |-> ev.score, factors |-> ev.factors, first |-> ret[1]]
    /\ ret' = <<sus_points(ret[1])>>
    /\ UNCHANGED <<dice, calls, last, fn, strategies, update, goal, scores, who, turns>>

NextFn == CallSusPoints \/ CallSusPointsAgain

SpecFn == InitFn /\ [][NextFn]_vars

\* C6: sus_points is idempotent on the non-negative integers.
SusPointsIdempotent ==
    pc = "returned again" => ret[1] = ev.first

SusPointsIdempotentWitness ==
    /\ pc = "returned again"
    /\ ev.score = 8
    /\ ev.first = 11
    /\ ret = <<11>>

Divisors(n) == {d \in 1..n : n % d = 0}

IsPrime(n) == Cardinality(Divisors(n)) = 2

\* The smallest prime >= n (there is one below 2 * n + 2).
NextPrime(n) ==
    CHOOSE p \in n..(2 * n + 2) : IsPrime(p) /\ \A q \in n..(p - 1) : ~IsPrime(q)

\* C7: for score >= 1, num_factors(score) is the number of positive
\* divisors of score, and sus_points(score) is the smallest prime >= score
\* when that number is 3 or 4, and score itself otherwise.
SusPointsReference ==
    (pc = "returned" /\ ev.score >= 1) =>
        /\ ev.factors = Cardinality(Divisors(ev.score))
        /\ ret[1] = IF Cardinality(Divisors(ev.score)) \in {3, 4}
                    THEN NextPrime(ev.score)
                    ELSE ev.score

SusPointsReferenceWitness ==
    /\ pc = "returned"
    /\ ev.score = 9
    /\ ev.factors = 3
    /\ ret = <<11>>

====
